---------------------------- MODULE Spec2Model ----------------------------
(***************************************************************************)
(* A model of scraper/sap_community_scraper.py: the conservative           *)
(* HTML->Markdown renderer, tag collection, the Q&A and blog record        *)
(* assemblers and the fetch loop of scrape_from_sitemaps.                  *)
(*                                                                         *)
(* Strings are sequences of one-character tokens; "nbsp" stands for the    *)
(* non-standard spaces U+00A0/U+202F/U+2007 and "zw" for the zero-width    *)
(* characters U+200B..U+200D, "bt" for the backtick.  An Optional value is  *)
(* a sequence of length 0 (None) or 1 (the value), so that None and ""     *)
(* are different values.                                                   *)
(***************************************************************************)
EXTENDS Integers, Sequences, FiniteSets, TLC

VARIABLES
    \* node_to_markdown / extract_body_markdown
    node, md, rpc,
    \* uniq_push / extract_common_fields
    pushed, tags,
    \* extract_flat_qna / parse_qna_page / parse_blog_page
    page, soup, pc, idx, answers_by_id, order, seen, question_id,
    question_text, question_upvotes, answers, reply_count,
    \* http_get / scrape_from_sitemaps
    entries, max_retries, net, e_idx, attempt, last_exc, parse_calls, results, fpc

renderVars == <<node, md, rpc>>
tagVars    == <<pushed, tags>>
pageVars   == <<page, soup, pc, idx, answers_by_id, order, seen, question_id,
                question_text, question_upvotes, answers, reply_count>>
fetchVars  == <<entries, max_retries, net, e_idx, attempt, last_exc, parse_calls,
                results, fpc>>
vars == <<renderVars, tagVars, pageVars, fetchVars>>

-----------------------------------------------------------------------------
(* Optional values *)
None == <<>>
Some(x) == <<x>>
Val(o) == o[1]

(* Python truthiness of an Optional[str]: None and "" are falsy *)
Truthy(o) == o # None /\ Val(o) # <<>>

-----------------------------------------------------------------------------
(* Strings *)

\* str.isspace(): what str.strip() removes and what \s matches
IsSpace(c) == c \in {" ", "\n", "nbsp"}

RECURSIVE LStrip(_)
LStrip(s) == IF s = <<>> THEN s
             ELSE IF IsSpace(Head(s)) THEN LStrip(Tail(s)) ELSE s

RECURSIVE RStrip(_)
RStrip(s) == IF s = <<>> THEN s
             ELSE IF IsSpace(s[Len(s)]) THEN RStrip(SubSeq(s, 1, Len(s) - 1)) ELSE s

Strip(s) == RStrip(LStrip(s))

StartsWith(s, c) == s # <<>> /\ Head(s) = c

EndsWith(s, c) == s # <<>> /\ s[Len(s)] = c

\* the length of the longest prefix of s made of whitespace
RECURSIVE SpaceRunLen(_)
SpaceRunLen(s) == IF s = <<>> \/ ~IsSpace(Head(s)) THEN 0 ELSE 1 + SpaceRunLen(Tail(s))

RECURSIVE Join(_, _)
Join(strs, sep) ==
    IF strs = <<>> THEN <<>>
    ELSE IF Len(strs) = 1 THEN Head(strs)
    ELSE Head(strs) \o sep \o Join(Tail(strs), sep)

RECURSIVE Concat(_)
Concat(strs) == IF strs = <<>> THEN <<>> ELSE Head(strs) \o Concat(Tail(strs))

\* str.lower() on the model's letters
LowerChar(c) == CASE c = "A" -> "a" [] c = "B" -> "b" [] OTHER -> c

Lower(s) == [k \in 1..Len(s) |-> LowerChar(s[k])]

\* normalize_whitespace(s) for a str: drops the bidi marks, turns the
\* non-breaking space into a space, collapses whitespace runs and strips
RECURSIVE DropMarks(_)
DropMarks(s) ==
    IF s = <<>> THEN <<>>
    ELSE IF Head(s) = "lrm" THEN DropMarks(Tail(s))
    ELSE IF Head(s) = "nbsp" THEN <<" ">> \o DropMarks(Tail(s))
    ELSE <<Head(s)>> \o DropMarks(Tail(s))

RECURSIVE CollapseWhitespace(_)
CollapseWhitespace(s) ==
    IF s = <<>> THEN <<>>
    ELSE IF IsSpace(Head(s))
         THEN <<" ">> \o CollapseWhitespace(SubSeq(s, SpaceRunLen(s) + 1, Len(s)))
         ELSE <<Head(s)>> \o CollapseWhitespace(Tail(s))

normalize_whitespace(s) == Strip(CollapseWhitespace(DropMarks(s)))

\* uniq_push comparing the stored values themselves, not their lower-case forms
uniq_push_CaseSensitive(arr, val) ==
    IF val = <<>> THEN arr
    ELSE LET val_norm == Strip(val)
         IN IF val_norm = <<>> THEN arr
            ELSE IF val_norm \notin {arr[k] : k \in 1..Len(arr)}
                 THEN Append(arr, val_norm) ELSE arr

\* uniq_push(arr, val): the list after the call
uniq_push(arr, val) ==
    IF val = <<>> THEN arr
    ELSE LET val_norm == Strip(val)
         IN IF val_norm = <<>> THEN arr
            ELSE LET lower_set == {Lower(arr[k]) : k \in 1..Len(arr)}
                 IN IF Lower(val_norm) \notin lower_set
                    THEN Append(arr, val_norm) ELSE arr

-----------------------------------------------------------------------------
(* DOM nodes: a NavigableString has name "#text"; a Tag has a name, children
   and the attributes the scraper reads. *)

\* The content of a script block: its JSON syntax ("empty", "ok",
\* "trailing_comma", which the repair fixes, or "broken"), the @type of its
\* node and the message ids of the #M<digits> fragments of the URLs of its
\* mainEntity.acceptedAnswer
Json(syntax, type, accepted) == [syntax |-> syntax, type |-> type, accepted |-> accepted]

NoJson == Json("empty", "", {})

Str(s) == [name |-> "#text", string |-> s, children |-> <<>>,
           href |-> <<>>, src |-> <<>>, alt |-> <<>>, title |-> <<>>, json |-> NoJson]

Elem(nm, kids) == [name |-> nm, string |-> <<>>, children |-> kids,
                   href |-> <<>>, src |-> <<>>, alt |-> <<>>, title |-> <<>>, json |-> NoJson]

Anchor(h, kids) == [Elem("a", kids) EXCEPT !.href = h]

Img(s, a, t) == [Elem("img", <<>>) EXCEPT !.src = s, !.alt = a, !.title = t]

\* <script type="application/ld+json">: json abstracts its content
Script(j) == [Elem("script", <<>>) EXCEPT !.json = j]

IsString(n) == n.name = "#text"

\* Tag._all_strings(): the strings of the subtree in document order
RECURSIVE AllStrings(_)
RECURSIVE AllStringsOf(_)
AllStrings(n) == IF IsString(n) THEN <<n.string>> ELSE AllStringsOf(n.children)

AllStringsOf(kids) ==
    IF kids = <<>> THEN <<>> ELSE AllStrings(Head(kids)) \o AllStringsOf(Tail(kids))

RECURSIVE StripAll(_)
StripAll(strs) ==
    IF strs = <<>> THEN <<>>
    ELSE LET s == Strip(Head(strs))
         IN (IF s = <<>> THEN <<>> ELSE <<s>>) \o StripAll(Tail(strs))

\* Tag.get_text(separator, strip=True)
get_text(n, sep) == Join(StripAll(AllStrings(n)), sep)


-----------------------------------------------------------------------------
(* Light HTML -> Markdown converter *)

BLOCK_BREAK_TAGS == {"p", "div", "section", "article"}
LINE_BREAK_TAGS == {"br", "hr", "li"}

\* The origin of the page URL, which urljoin puts before a relative href
BaseOrigin == <<"O">>

\* urljoin(base_url, href): a path-absolute href is resolved against the
\* page's origin, an absolute one is kept
urljoin(href) == IF StartsWith(href, "/") THEN BaseOrigin \o href ELSE href

\* pieces and not pieces[-1].endswith("\n")
LastEndsNewline(pieces) == pieces # <<>> /\ EndsWith(pieces[Len(pieces)], "\n")

\* WalkAnchor without the @mention test
WalkAnchor_NoMentionTest(n, pieces) ==
    LET href == Strip(n.href)
        text == get_text(n, <<" ">>)
    IN IF href # <<>>
       THEN Append(pieces, <<"[">> \o text \o <<"]", "(">> \o urljoin(href) \o <<")">>)
       ELSE Append(pieces, text)

\* the "a" branch of walk
WalkAnchor(n, pieces) ==
    LET href == Strip(n.href)
        text == get_text(n, <<" ">>)
    IN IF StartsWith(text, "@") THEN Append(pieces, text)
       ELSE IF href # <<>>
            THEN Append(pieces, <<"[">> \o text \o <<"]", "(">> \o urljoin(href) \o <<")">>)
            ELSE Append(pieces, text)

\* the "img" branch of walk
WalkImg(n, pieces) ==
    LET src == Strip(n.src)
        alt == IF Strip(n.alt) # <<>> THEN Strip(n.alt) ELSE Strip(n.title)
    IN IF src # <<>>
       THEN Append(pieces, <<"!", "[">> \o alt \o <<"]", "(">> \o urljoin(src) \o <<")">>)
       ELSE pieces

RECURSIVE walk(_, _)
RECURSIVE WalkChildren(_, _)
RECURSIVE WalkListItems(_, _)

\* for c in n.children: walk(c)
WalkChildren(kids, pieces) ==
    IF kids = <<>> THEN pieces
    ELSE WalkChildren(Tail(kids), walk(Head(kids), pieces))

\* for li in n.find_all("li", recursive=False): pieces.append("\n- "); walk(li)
WalkListItems(kids, pieces) ==
    IF kids = <<>> THEN pieces
    ELSE IF Head(kids).name = "li"
         THEN WalkListItems(Tail(kids), walk(Head(kids), Append(pieces, <<"\n", "-", " ">>)))
         ELSE WalkListItems(Tail(kids), pieces)

walk(n, pieces) ==
    IF IsString(n) THEN Append(pieces, n.string)
    ELSE IF n.name \in {"script", "style", "noscript"} THEN pieces
    ELSE IF n.name = "a" THEN WalkAnchor(n, pieces)
    ELSE IF n.name = "img" THEN WalkImg(n, pieces)
    ELSE IF n.name \in {"ul", "ol"}
         THEN Append(WalkListItems(n.children, pieces), <<"\n">>)
    ELSE IF n.name \in {"code", "kbd"}
         THEN Append(pieces, <<"bt">> \o get_text(n, <<>>) \o <<"bt">>)
    ELSE IF n.name \in {"strong", "b", "em", "i", "u", "span"}
         THEN WalkChildren(n.children, pieces)
    ELSE IF n.name \in BLOCK_BREAK_TAGS
         THEN LET p1 == IF pieces # <<>> /\ ~LastEndsNewline(pieces)
                        THEN Append(pieces, <<"\n">>) ELSE pieces
                  p2 == WalkChildren(n.children, p1)
              IN IF ~LastEndsNewline(p2) THEN Append(p2, <<"\n">>) ELSE p2
    ELSE IF n.name \in LINE_BREAK_TAGS
         THEN Append(WalkChildren(n.children, pieces), <<"\n">>)
    ELSE WalkChildren(n.children, pieces)

\* md.replace(<non-standard space>, " ") and re.sub(<zero-width>, "", md)
RECURSIVE NormalizeSpaces(_)
NormalizeSpaces(s) ==
    IF s = <<>> THEN <<>>
    ELSE IF Head(s) = "zw" THEN NormalizeSpaces(Tail(s))
    ELSE IF Head(s) = "nbsp" THEN <<" ">> \o NormalizeSpaces(Tail(s))
    ELSE <<Head(s)>> \o NormalizeSpaces(Tail(s))

\* re.sub(r"[ \t]+", " ", md)
RECURSIVE CollapseSpaces(_)
CollapseSpaces(s) ==
    IF Len(s) < 2 THEN s
    ELSE IF s[1] = " " /\ s[2] = " " THEN CollapseSpaces(Tail(s))
    ELSE <<Head(s)>> \o CollapseSpaces(Tail(s))

NewlinesIn(s) == {k \in 1..Len(s) : s[k] = "\n"}

\* the newline-tidying re.sub (at most one blank line): a match starts at a newline whose
\* whitespace run holds three newlines or more, and ends at the last newline of the run
RECURSIVE CollapseBlankLines(_)
CollapseBlankLines(s) ==
    IF s = <<>> THEN <<>>
    ELSE IF Head(s) # "\n" THEN <<Head(s)>> \o CollapseBlankLines(Tail(s))
    ELSE LET run == SubSeq(s, 1, SpaceRunLen(s))
             nls == NewlinesIn(run)
         IN IF Cardinality(nls) >= 3
            THEN LET last == CHOOSE k \in nls : \A j \in nls : j <= k
                 IN <<"\n", "\n">> \o CollapseBlankLines(SubSeq(s, last + 1, Len(s)))
            ELSE <<"\n">> \o CollapseBlankLines(Tail(s))

\* node_to_markdown(node, base_url): returns a str, "" when nothing survives
node_to_markdown(n) ==
    Strip(CollapseBlankLines(CollapseSpaces(NormalizeSpaces(Concat(walk(n, <<>>))))))


-----------------------------------------------------------------------------
(* Message containers and the field extractors *)

\* A message div: what the identifier sources hold (an inner element with id
\* M<digits>, an anchor with href #M<digits>, the data-lia-message-uid
\* attribute, the digits after "message-" in its own id), its class list, its
\* MessageView descendant (class list and accepted-hint text) if any, its body
\* div if any, and what the author, timestamp and upvote heuristics find in it.
Div(ids, class, mv, body, author, created_at, upvotes) ==
    [inner_id |-> ids.inner_id, href_id |-> ids.href_id, has_uid |-> ids.has_uid,
     uid |-> ids.uid, id_digits |-> ids.id_digits,
     class |-> class, mv |-> mv, body |-> body,
     author |-> author, created_at |-> created_at, upvotes |-> upvotes]

Ids(inner_id, href_id, has_uid, uid, id_digits) ==
    [inner_id |-> inner_id, href_id |-> href_id, has_uid |-> has_uid, uid |-> uid,
     id_digits |-> id_digits]

MessageView(class, hint) == Some([class |-> class, hint |-> hint])

get_anchor_mid(div) ==
    IF div.inner_id # None THEN div.inner_id
    ELSE IF div.href_id # None THEN div.href_id
    ELSE None

\* get_msg_id ending in a placeholder identifier where no source holds one
get_msg_id_Placeholder(div) ==
    LET mid == get_anchor_mid(div)
    IN IF Truthy(mid) THEN mid
       ELSE IF div.has_uid /\ div.uid # <<>> THEN Some(div.uid)
       ELSE IF div.id_digits # None THEN div.id_digits
       ELSE Some(<<"0">>)

get_msg_id(div) ==
    LET mid == get_anchor_mid(div)
    IN IF Truthy(mid) THEN mid
       ELSE IF div.has_uid THEN Some(div.uid)
       ELSE div.id_digits

\* the class names the question pattern matches
QuestionClasses == {"lia-message-view-question", "message-view-qanda-question",
                    "qanda-question", "thread-topic"}

is_question_div(div) == div.class \cap QuestionClasses # {}

\* the class names ACCEPTED_CLASS_RE matches
AcceptedClasses == {"lia-accepted-solution", "lia-solution-accepted",
                    "lia-message-accepted-solution", "lia-list-row-thread-solved",
                    "accepted", "solution"}

ACCEPTED_CLASS_RE(classes) == classes \cap AcceptedClasses # {}

container_has_accepted_marker_for_message(div) ==
    \/ ACCEPTED_CLASS_RE(div.class)
    \/ /\ div.mv # None
       /\ \/ ACCEPTED_CLASS_RE(Val(div.mv).class)
          \/ Val(div.mv).hint

\* for bad in body_div.find_all(["script", "style", "noscript"]): bad.decompose()
RECURSIVE Decompose(_)
RECURSIVE DecomposeAll(_)
Decompose(n) == [n EXCEPT !.children = DecomposeAll(n.children)]

DecomposeAll(kids) ==
    IF kids = <<>> THEN <<>>
    ELSE IF Head(kids).name \in {"script", "style", "noscript"} THEN DecomposeAll(Tail(kids))
    ELSE <<Decompose(Head(kids))>> \o DecomposeAll(Tail(kids))

\* extract_body_markdown(container, page_url): the value returned
extract_body_markdown(container) ==
    IF container.body = None THEN None
    ELSE LET md_ == node_to_markdown(Decompose(Val(container.body)))
         IN IF md_ = <<>> THEN None ELSE Some(md_)

\* the container after the scripts of its body were decomposed
AfterExtractBody(container) ==
    IF container.body = None THEN container
    ELSE [container EXCEPT !.body = Some(Decompose(Val(container.body)))]

\* f"{page_url}#M{msg_id}" if msg_id else None
MessageUrl(msg_id) ==
    IF Truthy(msg_id) THEN Some(BaseOrigin \o <<"#", "M">> \o Val(msg_id)) ELSE None

build_answer_from_div(div) ==
    [message_id |-> get_msg_id(div),
     message_url |-> MessageUrl(get_msg_id(div)),
     author |-> div.author,
     created_at |-> div.created_at,
     text |-> extract_body_markdown(div),
     is_accepted |-> container_has_accepted_marker_for_message(div),
     upvotes |-> div.upvotes]

-----------------------------------------------------------------------------
(* Structured data *)

\* all script elements of a subtree, in document order
RECURSIVE ScriptsIn(_)
RECURSIVE ScriptsInAll(_)
ScriptsIn(n) == IF n.name = "script" THEN <<n>> ELSE ScriptsInAll(n.children)

ScriptsInAll(kids) ==
    IF kids = <<>> THEN <<>> ELSE ScriptsIn(Head(kids)) \o ScriptsInAll(Tail(kids))

RECURSIVE BodyScripts(_)
BodyScripts(containers) ==
    IF containers = <<>> THEN <<>>
    ELSE (IF Head(containers).body = None THEN <<>> ELSE ScriptsIn(Val(Head(containers).body)))
         \o BodyScripts(Tail(containers))

\* soup.find_all("script", {"type": "application/ld+json"})
FindScripts(sp) == sp.scripts \o BodyScripts(sp.containers)

\* extract_json_ld(soup): the blocks that json.loads accepts, as they are or
\* after the trailing-comma repair
extract_json_ld(sp) ==
    SelectSeq([k \in 1..Len(FindScripts(sp)) |-> FindScripts(sp)[k].json],
              LAMBDA j : j.syntax \in {"ok", "trailing_comma"})

\* any(str(t).lower() == "qapage" for t in types)
IsQAPage(type) == type \in {"QAPage", "qapage"}

extract_json_ld_accepted_ids(sp) ==
    UNION { IF IsQAPage(extract_json_ld(sp)[k].type) THEN extract_json_ld(sp)[k].accepted ELSE {}
            : k \in 1..Len(extract_json_ld(sp)) }

-----------------------------------------------------------------------------
(* Inputs of the renderer: DOM subtrees up to a bounded depth *)

MaxDepth == 2

MentionHref == Anchor(<<"/", "p">>, <<Str(<<" ", "@", "u">>)>>)
MentionNoHref == Anchor(<<>>, <<Elem("span", <<Str(<<"@">>)>>), Str(<<"u">>)>>)
PlainLink == Anchor(<<"/", "p">>, <<Str(<<"x">>)>>)

Leaves == { Str(<<"x">>), Str(<<"\n", "nbsp", "zw">>),
            MentionHref, MentionNoHref, PlainLink,
            Img(<<"/", "i">>, <<>>, <<"t">>) }

\* what may stand before a subtree as its left sibling
SiblingLeaves == { Str(<<"x">>), MentionHref }

RenderTags == {"ul", "li", "p", "span", "code", "script", "h1"}

RECURSIVE Trees(_)
Trees(d) ==
    IF d = 0 THEN Leaves
    ELSE LET sub == Trees(d - 1)
         IN Leaves
            \cup {Elem(t, <<>>) : t \in RenderTags}
            \cup {Elem(t, <<k>>) : t \in RenderTags, k \in sub}
            \cup {Elem(t, <<l, k>>) : t \in RenderTags, l \in SiblingLeaves, k \in sub}

IdleRender == node = Str(<<>>) /\ md = <<>> /\ rpc = "idle"
IdleTags   == pushed = <<>> /\ tags = <<>>
IdlePage   == /\ page = <<>> /\ soup = <<>> /\ pc = "idle" /\ idx = 0 /\ answers_by_id = <<>>
              /\ order = <<>> /\ seen = {} /\ question_id = None
              /\ question_text = None /\ question_upvotes = None
              /\ answers = <<>> /\ reply_count = None
IdleFetch  == /\ entries = <<>> /\ max_retries = 0 /\ net = <<>> /\ e_idx = 0
              /\ attempt = 0 /\ last_exc = None /\ parse_calls = <<>>
              /\ results = <<>> /\ fpc = "idle"

InitRender ==
    /\ node \in Trees(MaxDepth)
    /\ md = <<>>
    /\ rpc = "input"
    /\ IdleTags /\ IdlePage /\ IdleFetch

\* md = node_to_markdown(node, base_url)
NodeToMarkdown ==
    /\ rpc = "input"
    /\ md' = node_to_markdown(node)
    /\ rpc' = "rendered"
    /\ UNCHANGED <<node, tagVars, pageVars, fetchVars>>

NextRender == NodeToMarkdown

SpecRender == InitRender /\ [][NextRender]_vars

-----------------------------------------------------------------------------
(* Tag collection in extract_common_fields *)

MaxTags == 3

\* the texts of the tag links of a page
TagTexts == { <<>>, <<" ">>, <<"a">>, <<"A">>, <<"a", "b">>, <<"A", "B">>,
              <<"a", "nbsp">>, <<"lrm", "b">>, <<"B", "\n", " ", "a">>, <<"b", " ", "a">> }

InitTags ==
    /\ pushed = <<>>
    /\ tags = <<>>
    /\ IdleRender /\ IdlePage /\ IdleFetch

\* one iteration of either tag loop: txt = normalize_whitespace(t.get_text());
\* uniq_push(tags, txt)
CollectTag ==
    /\ Len(pushed) < MaxTags
    /\ \E raw \in TagTexts :
          LET txt == normalize_whitespace(raw)
          IN /\ tags' = uniq_push(tags, txt)
             /\ pushed' = Append(pushed, txt)
    /\ UNCHANGED <<renderVars, pageVars, fetchVars>>

NextTags == CollectTag

SpecTags == InitTags /\ [][NextTags]_vars


-----------------------------------------------------------------------------
(* Pages *)

MaxContainers == 3

Id55 == <<"5", "5">>
Id77 == <<"7", "7">>
Id33 == <<"3", "3">>

IdNone == Ids(None, None, FALSE, <<>>, None)          \* id "message-" and no digit
IdEmptyUid == Ids(None, None, TRUE, <<>>, None)       \* data-lia-message-uid=""
IdInner55 == Ids(Some(Id55), None, FALSE, <<>>, None) \* an inner element M55
IdUid55 == Ids(None, None, TRUE, Id55, None)          \* data-lia-message-uid="55"
IdOwn77 == Ids(None, None, FALSE, <<>>, Some(Id77))   \* id "message-77"
IdHref33 == Ids(None, Some(Id33), FALSE, <<>>, None)  \* a link to #M33

Question == {"lia-message-view-question"}
Accepted == {"lia-accepted-solution"}

LdAccepts77 == Json("ok", "QAPage", {Id77})
LdAccepts55 == Json("trailing_comma", "QAPage", {Id55})

BodyText == Elem("div", <<Elem("p", <<Str(<<"Y">>)>>)>>)
BodyEmpty == Elem("div", <<Str(<<" ", "\n">>)>>)
BodyWithLd == Elem("div", <<Script(LdAccepts77), Str(<<"Z">>)>>)

\* what the author lookup and parse_datetime_candidate find in a container
AuthorA == Some(<<"a">>)
AuthorB == Some(<<"b">>)
Time1 == <<"t", "1">>
Time2 == <<"t", "2">>

\* The message containers of Q&A pages: unidentifiable ones, with and without
\* the question class; messages 55 and 77, each as a plain reply with a body,
\* as an accepted reply, as the marked question; 55 also as the copy in the
\* accepted-solution widget (accepted hint, no body), 77 also with a
\* structured-data block inside its body; message 33 as a plain reply
QnaDivs ==
    { Div(IdNone, {}, None, Some(BodyText), None, None, Some(1)),
      Div(IdNone, Question, None, Some(BodyText), None, None, None),
      Div(IdEmptyUid, Question, None, Some(BodyText), None, None, Some(1)),
      Div(IdInner55, {}, None, Some(BodyText), None, None, Some(1)),
      Div(IdInner55, Accepted, None, Some(BodyEmpty), AuthorA, Some(Time1), None),
      Div(IdInner55, Question, None, Some(BodyText), AuthorB, Some(Time2), Some(2)),
      Div(IdUid55, {}, MessageView({}, TRUE), None, None, None, None),
      Div(IdOwn77, {}, None, Some(BodyText), AuthorA, None, Some(1)),
      Div(IdOwn77, Accepted, None, Some(BodyText), None, Some(Time1), None),
      Div(IdOwn77, Question, None, Some(BodyEmpty), None, None, None),
      Div(IdOwn77, {}, None, Some(BodyWithLd), AuthorB, Some(Time2), None),
      Div(IdHref33, {}, None, Some(BodyText), None, None, None) }

Page(containers, scripts, article) ==
    [containers |-> containers, scripts |-> scripts, article |-> article]

QnaPages ==
    { Page(cs, scripts, None) :
        cs \in UNION {[1..n -> QnaDivs] : n \in 0..MaxContainers},
        scripts \in {<<>>, <<Script(LdAccepts55)>>} }

\* containers = list(soup.select(...)), then the messages inside accepted
\* wrappers that are not in the list yet: the selection holds them all already
Candidates(sp) ==
    LET containers == sp.containers
    IN containers \o SelectSeq(containers, LAMBDA m : \A k \in 1..Len(containers) : containers[k] # m)

\* order.remove(question_id) left out
RemoveFirst_Forgotten(seq, x) == seq

\* order.remove(x)
RemoveFirst(seq, x) ==
    LET k == CHOOSE i \in 1..Len(seq) : seq[i] = x /\ \A j \in 1..(i - 1) : seq[j] # x
    IN SubSeq(seq, 1, k - 1) \o SubSeq(seq, k + 1, Len(seq))

\* the merge of a later container's Answer into the stored one, with the
\* accepted flag taken from the later container
Merge_LastAccepted(base, ans) ==
    [base EXCEPT
        !.is_accepted = ans.is_accepted,
        !.text = IF ~Truthy(base.text) /\ Truthy(ans.text) THEN ans.text ELSE @,
        !.created_at = IF ~Truthy(base.created_at) /\ Truthy(ans.created_at)
                       THEN ans.created_at ELSE @,
        !.upvotes = IF base.upvotes = None /\ ans.upvotes # None THEN ans.upvotes ELSE @]

\* the merge without the fill of an empty stored text
Merge_NoTextFill(base, ans) ==
    [base EXCEPT
        !.is_accepted = base.is_accepted \/ ans.is_accepted,
        !.created_at = IF ~Truthy(base.created_at) /\ Truthy(ans.created_at)
                       THEN ans.created_at ELSE @,
        !.upvotes = IF base.upvotes = None /\ ans.upvotes # None THEN ans.upvotes ELSE @]

\* the merge of a later container's Answer into the stored one
Merge(base, ans) ==
    [base EXCEPT
        !.is_accepted = base.is_accepted \/ ans.is_accepted,
        !.text = IF ~Truthy(base.text) /\ Truthy(ans.text) THEN ans.text ELSE @,
        !.created_at = IF ~Truthy(base.created_at) /\ Truthy(ans.created_at)
                       THEN ans.created_at ELSE @,
        !.upvotes = IF base.upvotes = None /\ ans.upvotes # None THEN ans.upvotes ELSE @]

-----------------------------------------------------------------------------
(* extract_flat_qna and parse_qna_page *)

OnlyPage == UNCHANGED <<renderVars, tagVars, fetchVars>>

Init ==
    /\ page \in QnaPages
    /\ soup = page
    /\ pc = "start"
    /\ idx = 0
    /\ answers_by_id = <<>>
    /\ order = <<>>
    /\ seen = {}
    /\ question_id = None
    /\ question_text = None
    /\ question_upvotes = None
    /\ answers = <<>>
    /\ reply_count = None
    /\ IdleRender /\ IdleTags /\ IdleFetch

\* if not containers: return None, None, [], 0
NoContainers ==
    /\ pc = "start"
    /\ Candidates(soup) = <<>>
    /\ reply_count' = Some(0)
    /\ pc' = "returned"
    /\ UNCHANGED <<page, soup, idx, answers_by_id, order, seen, question_id,
                   question_text, question_upvotes, answers>>
    /\ OnlyPage

BeginDedup ==
    /\ pc = "start"
    /\ Candidates(soup) # <<>>
    /\ idx' = 1
    /\ pc' = "dedup"
    /\ UNCHANGED <<page, soup, answers_by_id, order, seen, question_id,
                   question_text, question_upvotes, answers, reply_count>>
    /\ OnlyPage

InDedup == pc = "dedup" /\ idx <= Len(Candidates(soup))

\* mid = get_msg_id(div); if not mid: continue
DropUnidentified ==
    /\ InDedup
    /\ ~Truthy(get_msg_id(Candidates(soup)[idx]))
    /\ idx' = idx + 1
    /\ UNCHANGED <<page, soup, pc, answers_by_id, order, seen, question_id,
                   question_text, question_upvotes, answers, reply_count>>
    /\ OnlyPage

\* order.insert(0, mid) in place of order.append(mid)
InsertMessage_Prepend ==
    /\ InDedup
    /\ LET div == Candidates(soup)[idx]
           mid == get_msg_id(div)
       IN /\ Truthy(mid)
          /\ Val(mid) \notin DOMAIN answers_by_id
          /\ answers_by_id' = answers_by_id @@ (Val(mid) :> build_answer_from_div(div))
          /\ order' = <<Val(mid)>> \o order
          /\ soup' = [soup EXCEPT !.containers[idx] = AfterExtractBody(div)]
    /\ idx' = idx + 1
    /\ UNCHANGED <<page, pc, seen, question_id, question_text, question_upvotes,
                   answers, reply_count>>
    /\ OnlyPage

\* a first container of its identifier: answers_by_id[mid] = ans; order.append(mid)
InsertMessage ==
    /\ InDedup
    /\ LET div == Candidates(soup)[idx]
           mid == get_msg_id(div)
       IN /\ Truthy(mid)
          /\ Val(mid) \notin DOMAIN answers_by_id
          /\ answers_by_id' = answers_by_id @@ (Val(mid) :> build_answer_from_div(div))
          /\ order' = Append(order, Val(mid))
          /\ soup' = [soup EXCEPT !.containers[idx] = AfterExtractBody(div)]
    /\ idx' = idx + 1
    /\ UNCHANGED <<page, pc, seen, question_id, question_text, question_upvotes,
                   answers, reply_count>>
    /\ OnlyPage

\* a later container of a stored identifier: merged into the stored Answer
MergeMessage ==
    /\ InDedup
    /\ LET div == Candidates(soup)[idx]
           mid == get_msg_id(div)
       IN /\ Truthy(mid)
          /\ Val(mid) \in DOMAIN answers_by_id
          /\ answers_by_id' = [answers_by_id EXCEPT
                                  ![Val(mid)] = Merge(@, build_answer_from_div(div))]
          /\ soup' = [soup EXCEPT !.containers[idx] = AfterExtractBody(div)]
    /\ idx' = idx + 1
    /\ UNCHANGED <<page, pc, order, seen, question_id, question_text, question_upvotes,
                   answers, reply_count>>
    /\ OnlyPage

\* the first container is_question_div accepts gives the question identifier;
\* without one (or without an identifier on it) the first stored message does
PickQuestion ==
    /\ pc = "dedup"
    /\ idx > Len(Candidates(soup))
    /\ LET containers == Candidates(soup)
           qdivs == {k \in 1..Len(containers) : is_question_div(containers[k])}
           marked == IF qdivs = {} THEN None
                     ELSE get_msg_id(containers[CHOOSE k \in qdivs : \A j \in qdivs : k <= j])
       IN question_id' = IF marked = None /\ order # <<>>
                         THEN Some(order[1]) ELSE marked
    /\ pc' = "promote"
    /\ UNCHANGED <<page, soup, idx, answers_by_id, order, seen, question_text,
                   question_upvotes, answers, reply_count>>
    /\ OnlyPage

\* the question leaves the pool and the order; answers is built from the rest
PromoteQuestion ==
    /\ pc = "promote"
    /\ Truthy(question_id)
    /\ Val(question_id) \in DOMAIN answers_by_id
    /\ LET q_ans == answers_by_id[Val(question_id)]
           rest == [m \in (DOMAIN answers_by_id) \ {Val(question_id)} |-> answers_by_id[m]]
           ord == RemoveFirst(order, Val(question_id))
       IN /\ answers_by_id' = rest
          /\ order' = ord
          /\ question_text' = q_ans.text
          /\ question_upvotes' = q_ans.upvotes
          /\ answers' = [k \in 1..Len(ord) |-> answers_by_id[ord[k]]]
    /\ pc' = "jsonld"
    /\ UNCHANGED <<page, soup, idx, seen, question_id, reply_count>>
    /\ OnlyPage

\* no question among the stored messages: answers is built from all of them
NoQuestion ==
    /\ pc = "promote"
    /\ ~(Truthy(question_id) /\ Val(question_id) \in DOMAIN answers_by_id)
    /\ answers' = [k \in 1..Len(order) |-> answers_by_id[order[k]]]
    /\ pc' = "jsonld"
    /\ UNCHANGED <<page, soup, idx, answers_by_id, order, seen, question_id,
                   question_text, question_upvotes, reply_count>>
    /\ OnlyPage

\* the structured-data pass over the Answers left (answers holds the same
\* objects as answers_by_id), and the return
ApplyJsonLd ==
    /\ pc = "jsonld"
    /\ LET ids == extract_json_ld_accepted_ids(soup)
           marked == [m \in DOMAIN answers_by_id |->
                        IF m \in ids THEN [answers_by_id[m] EXCEPT !.is_accepted = TRUE]
                        ELSE answers_by_id[m]]
       IN /\ answers_by_id' = marked
          /\ answers' = [k \in 1..Len(answers) |-> marked[Val(answers[k].message_id)]]
    /\ reply_count' = Some(Len(answers))
    /\ pc' = "returned"
    /\ UNCHANGED <<page, soup, idx, order, seen, question_id, question_text, question_upvotes>>
    /\ OnlyPage

\* parse_qna_page: ContentItem(..., answers=answers or [], reply_count=reply_count or 0)
AssembleQna ==
    /\ pc = "returned"
    /\ reply_count' = IF reply_count = None THEN Some(0) ELSE reply_count
    /\ pc' = "done"
    /\ UNCHANGED <<page, soup, idx, answers_by_id, order, seen, question_id,
                   question_text, question_upvotes, answers>>
    /\ OnlyPage

Next ==
    \/ NoContainers
    \/ BeginDedup
    \/ DropUnidentified
    \/ InsertMessage
    \/ MergeMessage
    \/ PickQuestion
    \/ PromoteQuestion
    \/ NoQuestion
    \/ ApplyJsonLd
    \/ AssembleQna

Spec == Init /\ [][Next]_vars

-----------------------------------------------------------------------------
(* extract_flat_qna over every combination of the four identifier sources *)

IdValues == {Id55, Id77}

\* every combination: each of the inner id, the link and the own id missing
\* or holding 55 or 77; the message-UID attribute missing, empty, or 55 or 77
IdShapes ==
    { Ids(a, b, u[1], u[2], d) :
        a \in {None} \cup {Some(x) : x \in IdValues},
        b \in {None} \cup {Some(x) : x \in IdValues},
        u \in {<<FALSE, <<>> >>, <<TRUE, <<>> >>} \cup {<<TRUE, x>> : x \in IdValues},
        d \in {None} \cup {Some(x) : x \in IdValues} }

\* pages with no container, with one container of each shape, and with such a
\* container followed by a plain reply 55
IdPages ==
    LET reply == Div(IdInner55, {}, None, Some(BodyText), None, None, Some(1))
        divs == {Div(ids, {}, None, Some(BodyText), None, None, None) : ids \in IdShapes}
    IN {Page(<<>>, <<>>, None)}
       \cup {Page(<<div>>, <<>>, None) : div \in divs}
       \cup {Page(<<div, reply>>, <<>>, None) : div \in divs}

InitIds ==
    /\ page \in IdPages
    /\ soup = page
    /\ pc = "start"
    /\ idx = 0
    /\ answers_by_id = <<>>
    /\ order = <<>>
    /\ seen = {}
    /\ question_id = None
    /\ question_text = None
    /\ question_upvotes = None
    /\ answers = <<>>
    /\ reply_count = None
    /\ IdleRender /\ IdleTags /\ IdleFetch

SpecIds == InitIds /\ [][Next]_vars

-----------------------------------------------------------------------------
(* parse_blog_page *)

\* the comment containers of blog pages (each has an id that begins "message-")
BlogDivs ==
    { Div(IdNone, {}, None, Some(BodyText), None, None, Some(1)),
      Div(IdEmptyUid, {}, None, Some(BodyText), None, None, None),
      Div(IdInner55, {}, None, Some(BodyText), None, None, Some(1)),
      Div(IdOwn77, Accepted, None, Some(BodyEmpty), None, None, None),
      Div(IdOwn77, {}, None, Some(BodyText), None, None, None) }

BlogPages ==
    { Page(cs, <<>>, article) :
        cs \in UNION {[1..n -> BlogDivs] : n \in 0..MaxContainers},
        article \in {None, Some(BodyText), Some(BodyEmpty)} }

\* soup.find("div", {"class": <body classes>}) or soup.find("article"): the
\* article body if the page has one, else the first message body in the page
FindArticle(sp) ==
    LET withBody == {k \in 1..Len(sp.containers) : sp.containers[k].body # None}
    IN IF sp.article # None THEN sp.article
       ELSE IF withBody # {}
            THEN sp.containers[CHOOSE k \in withBody : \A j \in withBody : k <= j].body
            ELSE None

InitBlog ==
    /\ page \in BlogPages
    /\ soup = page
    /\ pc = "start"
    /\ idx = 0
    /\ answers_by_id = <<>>
    /\ order = <<>>
    /\ seen = {}
    /\ question_id = None
    /\ question_text = None
    /\ question_upvotes = None
    /\ answers = <<>>
    /\ reply_count = None
    /\ IdleRender /\ IdleTags /\ IdleFetch

\* question_text = node_to_markdown(article, base_url=url) if article else None
RenderArticle ==
    /\ pc = "start"
    /\ question_text' = IF FindArticle(soup) # None
                        THEN Some(node_to_markdown(Val(FindArticle(soup)))) ELSE None
    /\ idx' = 1
    /\ pc' = "comments"
    /\ UNCHANGED <<page, soup, answers_by_id, order, seen, question_id, question_upvotes,
                   answers, reply_count>>
    /\ OnlyPage

InComments == pc = "comments" /\ idx <= Len(soup.containers)

\* if mid and mid in seen: continue
SkipSeenComment ==
    /\ InComments
    /\ LET mid == get_msg_id(soup.containers[idx])
       IN Truthy(mid) /\ Val(mid) \in seen
    /\ idx' = idx + 1
    /\ UNCHANGED <<page, soup, pc, answers_by_id, order, seen, question_id, question_text,
                   question_upvotes, answers, reply_count>>
    /\ OnlyPage

\* if mid: seen.add(mid); the Answer is built, its accepted flag cleared, and appended
AppendComment ==
    /\ InComments
    /\ LET div == soup.containers[idx]
           mid == get_msg_id(div)
       IN /\ ~(Truthy(mid) /\ Val(mid) \in seen)
          /\ seen' = IF Truthy(mid) THEN seen \cup {Val(mid)} ELSE seen
          /\ answers' = Append(answers, [build_answer_from_div(div) EXCEPT !.is_accepted = FALSE])
          /\ soup' = [soup EXCEPT !.containers[idx] = AfterExtractBody(div)]
    /\ idx' = idx + 1
    /\ UNCHANGED <<page, pc, answers_by_id, order, question_id, question_text,
                   question_upvotes, reply_count>>
    /\ OnlyPage

\* ContentItem(..., answers=answers, reply_count=len(answers))
AssembleBlog ==
    /\ pc = "comments"
    /\ idx > Len(soup.containers)
    /\ reply_count' = Some(Len(answers))
    /\ pc' = "done"
    /\ UNCHANGED <<page, soup, idx, answers_by_id, order, seen, question_id, question_text,
                   question_upvotes, answers>>
    /\ OnlyPage

NextBlog ==
    \/ RenderArticle
    \/ SkipSeenComment
    \/ AppendComment
    \/ AssembleBlog

SpecBlog == InitBlog /\ [][NextBlog]_vars

-----------------------------------------------------------------------------
(* http_get and the page loop of scrape_from_sitemaps *)

MaxEntries == 2
MaxRetriesArg == 2

\* URL paths, as the sequence of their segments
Urls == { <<"t5", "qaq-p", "1">>, <<"t5", "blogs", "2">>, <<"t5", "qaq-p">> }

HasSegment(url, segs) == \E k \in 1..(Len(url) - 1) : url[k] \in segs

\* detect_content_type: "/qaq-p/" in path etc.; a marker needs a slash on either side
detect_content_type(url) ==
    IF HasSegment(url, {"qaq-p", "qa-p"}) THEN "qna"
    ELSE IF HasSegment(url, {"blogs", "blog"}) THEN "blog"
    ELSE "other"

\* the parse function the loop dispatches to
ParseFunction(ctype) ==
    CASE ctype = "qna" -> "parse_qna_page"
      [] ctype = "blog" -> "parse_blog_page"
      [] OTHER -> "parse_generic_page"

\* the attempts http_get makes: range(1, max_retries + 2), one too many
HasAttempt_OffByOne(a, n) == a <= n + 1

\* for attempt in range(1, max_retries + 1)
HasAttempt(a, n) == a <= n

OnlyFetch == UNCHANGED <<renderVars, tagVars, pageVars>>

InitFetch ==
    /\ entries \in UNION {[1..n -> Urls] : n \in 1..MaxEntries}
    /\ max_retries \in 0..MaxRetriesArg
    /\ net = [e \in 1..Len(entries) |-> <<>>]
    /\ e_idx = 0
    /\ attempt = 0
    /\ last_exc = None
    /\ parse_calls = <<>>
    /\ results = <<>>
    /\ fpc = "loop"
    /\ IdleRender /\ IdleTags /\ IdlePage

\* for idx, e in enumerate(entries, 1): ... http_get(url, ...) is entered
NextEntry ==
    /\ fpc = "loop"
    /\ e_idx < Len(entries)
    /\ e_idx' = e_idx + 1
    /\ attempt' = 1
    /\ last_exc' = None
    /\ fpc' = "http_get"
    /\ UNCHANGED <<entries, max_retries, net, parse_calls, results>>
    /\ OnlyFetch

\* requests.get returned status 200: http_get returns the response
Request200 ==
    /\ fpc = "http_get"
    /\ HasAttempt(attempt, max_retries)
    /\ net' = [net EXCEPT ![e_idx] = Append(@, "200")]
    /\ fpc' = "fetched"
    /\ UNCHANGED <<entries, max_retries, e_idx, attempt, last_exc, parse_calls, results>>
    /\ OnlyFetch

\* requests.get returned another status: warn, sleep, next attempt
RequestNon200 ==
    /\ fpc = "http_get"
    /\ HasAttempt(attempt, max_retries)
    /\ net' = [net EXCEPT ![e_idx] = Append(@, "non200")]
    /\ attempt' = attempt + 1
    /\ UNCHANGED <<entries, max_retries, e_idx, last_exc, parse_calls, results, fpc>>
    /\ OnlyFetch

\* requests.get raised: remember the exception, sleep, next attempt
RequestError ==
    /\ fpc = "http_get"
    /\ HasAttempt(attempt, max_retries)
    /\ net' = [net EXCEPT ![e_idx] = Append(@, "exc")]
    /\ last_exc' = Some(attempt)
    /\ attempt' = attempt + 1
    /\ UNCHANGED <<entries, max_retries, e_idx, parse_calls, results, fpc>>
    /\ OnlyFetch

\* the attempts are used up: http_get raises last_exc or RuntimeError, and
\* the page loop logs the skip and continues
HttpGetRaises ==
    /\ fpc = "http_get"
    /\ ~HasAttempt(attempt, max_retries)
    /\ fpc' = "loop"
    /\ UNCHANGED <<entries, max_retries, net, e_idx, attempt, last_exc, parse_calls, results>>
    /\ OnlyFetch

\* the page was fetched: dispatch on the content type, append the item
ParsePage ==
    /\ fpc = "fetched"
    /\ LET url == entries[e_idx]
           ctype == detect_content_type(url)
       IN /\ parse_calls' = Append(parse_calls, [e |-> e_idx, fn |-> ParseFunction(ctype)])
          /\ results' = Append(results, [e |-> e_idx, url |-> url, content_type |-> ctype])
    /\ fpc' = "loop"
    /\ UNCHANGED <<entries, max_retries, net, e_idx, attempt, last_exc>>
    /\ OnlyFetch

\* the loop is over: return results
ReturnResults ==
    /\ fpc = "loop"
    /\ e_idx = Len(entries)
    /\ fpc' = "done"
    /\ UNCHANGED <<entries, max_retries, net, e_idx, attempt, last_exc, parse_calls, results>>
    /\ OnlyFetch

NextFetch ==
    \/ NextEntry
    \/ Request200
    \/ RequestNon200
    \/ RequestError
    \/ HttpGetRaises
    \/ ParsePage
    \/ ReturnResults

SpecFetch == InitFetch /\ [][NextFetch]_vars

-----------------------------------------------------------------------------
(* Properties of the renderer *)

\* all nodes of a subtree
RECURSIVE Nodes(_)
Nodes(n) == {n} \cup UNION {Nodes(n.children[k]) : k \in 1..Len(n.children)}

\* an anchor whose visible text, as walk reads it, begins with "@"
IsMention(n) == n.name = "a" /\ StartsWith(get_text(n, <<" ">>), "@")

\* the subtree with every mention anchor replaced by its text as a plain string
RECURSIVE Plainify(_)
Plainify(n) ==
    IF IsString(n) THEN n
    ELSE IF IsMention(n) THEN Str(get_text(n, <<" ">>))
    ELSE [n EXCEPT !.children = [k \in 1..Len(n.children) |-> Plainify(n.children[k])]]

MentionUnderCode(n) ==
    \E c \in Nodes(n) : c.name \in {"code", "kbd"} /\ \E m \in Nodes(c) : IsMention(m)

OnlyMentionAnchors(n) ==
    \A c \in Nodes(n) : c.name # "img" /\ (c.name = "a" => IsMention(c))

Range(s) == {s[k] : k \in 1..Len(s)}

\* C9 (mention safety): an anchor whose text begins with "@" is rendered exactly
\* as the plain string of its text would be, wherever it sits outside inline
\* code, with or without an href; and a subtree whose only anchors are mentions
\* renders without any Markdown link syntax.
C9_MentionSafety ==
    rpc = "rendered" =>
        /\ ~MentionUnderCode(node) => md = node_to_markdown(Plainify(node))
        /\ OnlyMentionAnchors(node) => Range(md) \cap {"[", "]", "(", ")"} = {}

C9_Witness ==
    /\ rpc = "rendered"
    /\ node = Elem("ul", <<Elem("li", <<MentionHref>>)>>)
    /\ md = <<"-", " ", "@", "u">>


-----------------------------------------------------------------------------
(* Properties of the tag list *)

\* the first position at which a value equal to v ignoring case was pushed
FirstPush(v) == CHOOSE k \in 1..Len(pushed) :
                    /\ Lower(pushed[k]) = Lower(v)
                    /\ \A j \in 1..(k - 1) : Lower(pushed[j]) # Lower(v)

\* C5 (tag uniqueness): no two tags are equal ignoring case; every non-blank
\* pushed string is represented by exactly one tag, which is the first pushed
\* string of its case-insensitive group; the tags keep the order in which
\* their groups were first pushed; blank pushes leave no tag.
C5_TagUniqueness ==
    /\ \A i, j \in 1..Len(tags) : i # j => Lower(tags[i]) # Lower(tags[j])
    /\ \A k \in 1..Len(pushed) :
          pushed[k] # <<>> =>
              /\ Cardinality({t \in 1..Len(tags) : Lower(tags[t]) = Lower(pushed[k])}) = 1
              /\ \E t \in 1..Len(tags) : tags[t] = pushed[FirstPush(pushed[k])]
    /\ \A t \in 1..Len(tags) :
          /\ tags[t] # <<>>
          /\ \E k \in 1..Len(pushed) : pushed[k] = tags[t]
    /\ \A i, j \in 1..Len(tags) : i < j => FirstPush(tags[i]) < FirstPush(tags[j])

C5_Witness ==
    /\ pushed = << <<"A", "B">>, <<"b">>, <<"a", "b">> >>
    /\ tags = << <<"A", "B">>, <<"b">> >>


-----------------------------------------------------------------------------
(* Properties of the fetch loop *)

\* the loop is through with entry e
Finished(e) == e < e_idx \/ (e = e_idx /\ fpc \in {"loop", "done"})

RecordsOf(e) == {k \in 1..Len(results) : results[k].e = e}
ParseCallsOf(e) == {k \in 1..Len(parse_calls) : parse_calls[k].e = e}

\* C10 (fetch exhaustion skips the page): http_get never makes more than
\* max_retries requests for a URL; a 200 response is the last request made for
\* its URL; a URL none of whose requests returned 200 gets no parse call and no
\* record, one that got a 200 gets exactly one of each; and the loop ends only
\* after every entry, skipped or not, has been gone through.
C10_FetchExhaustion ==
    /\ \A e \in 1..Len(entries) :
          /\ Len(net[e]) <= max_retries
          /\ \A k \in 1..Len(net[e]) : net[e][k] = "200" => k = Len(net[e])
          /\ Finished(e) =>
                LET ok == \E k \in 1..Len(net[e]) : net[e][k] = "200"
                IN /\ ~ok => Len(net[e]) = max_retries
                   /\ Cardinality(RecordsOf(e)) = (IF ok THEN 1 ELSE 0)
                   /\ Cardinality(ParseCallsOf(e)) = (IF ok THEN 1 ELSE 0)
          /\ ~Finished(e) => RecordsOf(e) = {}
    /\ fpc = "done" => \A e \in 1..Len(entries) : Finished(e)

\* the first URL failed with an exception and a non-200 status and was skipped,
\* the second was fetched on its second attempt
C10_Witness ==
    /\ fpc = "done"
    /\ Len(entries) = 2
    /\ max_retries = 2
    /\ net = << <<"exc", "non200">>, <<"non200", "200">> >>
    /\ Len(results) = 1
    /\ results[1].e = 2


-----------------------------------------------------------------------------
(* Properties of the assembled records *)

Returned == pc \in {"returned", "done"}

\* the candidate containers of the page that resolve to identifier x
Resolving(x) ==
    {k \in 1..Len(Candidates(page)) : get_msg_id(Candidates(page)[k]) = Some(x)}

\* the identifiers that two or more candidate containers resolve to
SharedIds == {x \in {Id55, Id77} : Cardinality(Resolving(x)) >= 2}

AnswersOf(x) == {k \in 1..Len(answers) : answers[k].message_id = Some(x)}

\* the accepted signal of a single container
DomSignal(k) == container_has_accepted_marker_for_message(Candidates(page)[k])

\* C1 (question exclusion): once the Answer sequence is built, none of its
\* Answers carries the identifier chosen as the question identifier.
C1_QuestionExclusion ==
    pc \in {"jsonld", "returned", "done"} =>
        \A k \in 1..Len(answers) : answers[k].message_id # question_id

\* a marked question 55 that two containers resolve to, beside an Answer
C1_Witness ==
    /\ pc = "done"
    /\ question_id = Some(Id55)
    /\ Cardinality(Resolving(Id55)) = 2
    /\ \E k \in Resolving(Id55) : is_question_div(Candidates(page)[k])
    /\ Len(answers) = 1

\* C2 as claimed (dedup idempotence): an identifier that two containers resolve
\* to has exactly one Answer or is the promoted question, and the accepted flag
\* of its Answer equals the OR of the two containers' accepted signals.
C2_AcceptedIsOrOfContainers ==
    pc = "done" =>
        \A x \in SharedIds :
            /\ \/ Cardinality(AnswersOf(x)) = 1 /\ question_id # Some(x)
               \/ AnswersOf(x) = {} /\ question_id = Some(x)
            /\ \A k \in AnswersOf(x) :
                  answers[k].is_accepted <=> \E c \in Resolving(x) : DomSignal(c)

\* C2 as amended: an identifier that two or more containers resolve to has
\* exactly one Answer or is the promoted question, and the accepted flag of its
\* Answer is the OR of the accepted signals of the containers resolving to it,
\* or true when the structured-data pass finds the identifier accepted.
C2_DedupIdempotence ==
    pc = "done" =>
        \A x \in SharedIds :
            /\ \/ Cardinality(AnswersOf(x)) = 1 /\ question_id # Some(x)
               \/ AnswersOf(x) = {} /\ question_id = Some(x)
            /\ \A k \in AnswersOf(x) :
                  answers[k].is_accepted <=>
                      \/ \E c \in Resolving(x) : DomSignal(c)
                      \/ x \in extract_json_ld_accepted_ids(soup)

\* two containers of message 55, the first with an accepted signal and the
\* second without, no structured data: one accepted Answer
C2_Witness ==
    /\ pc = "done"
    /\ page.scripts = <<>>
    /\ \E c, d \in Resolving(Id55) : c < d /\ DomSignal(c) /\ ~DomSignal(d)
    /\ Cardinality(Resolving(Id55)) = 2
    /\ \E k \in AnswersOf(Id55) : answers[k].is_accepted

\* C3 (acceptance union): the accepted flag of an Answer is true exactly when a
\* container resolving to its identifier carries the accepted marker or the
\* page's structured data names the identifier as an accepted answer.
C3_AcceptanceUnion ==
    pc = "done" =>
        \A k \in 1..Len(answers) :
            answers[k].is_accepted <=>
                \/ \E c \in Resolving(Val(answers[k].message_id)) : DomSignal(c)
                \/ Val(answers[k].message_id) \in extract_json_ld_accepted_ids(page)

\* the two containers of scenario B among the candidates: both resolve to x, one
\* has an accepted class and an empty body, the other no accepted class and a
\* body that renders to some text
ScenarioB(x, c, d) ==
    LET containers == Candidates(page)
    IN /\ Resolving(x) = {c, d} /\ c # d
       /\ ACCEPTED_CLASS_RE(containers[c].class)
       /\ extract_body_markdown(containers[c]) = None
       /\ ~DomSignal(d)
       /\ extract_body_markdown(containers[d]) # None

\* C4 as claimed (scenario B): a page whose message containers are the two
\* containers of scenario B has exactly one Answer with their identifier,
\* accepted, its text the rendered body.
C4_TwoContainersOneAnswer ==
    pc = "done" =>
        \A x \in {Id55, Id77} : \A c, d \in 1..Len(Candidates(page)) :
            (Len(Candidates(page)) = 2 /\ ScenarioB(x, c, d)) =>
                /\ Cardinality(AnswersOf(x)) = 1
                /\ \A k \in AnswersOf(x) :
                      /\ answers[k].is_accepted
                      /\ answers[k].text = extract_body_markdown(Candidates(page)[d])

\* C4 as amended: where the two containers of scenario B are the only ones
\* resolving to their identifier, that identifier has exactly one Answer,
\* accepted and with the rendered body as its text, if another message is the
\* question; if it is the question itself (as on a page holding only the two),
\* it has no Answer and the rendered body is the question text.
C4_ScenarioB ==
    pc = "done" =>
        \A x \in {Id55, Id77} : \A c, d \in 1..Len(Candidates(page)) :
            ScenarioB(x, c, d) =>
                /\ question_id # Some(x) =>
                      /\ Cardinality(AnswersOf(x)) = 1
                      /\ \A k \in AnswersOf(x) :
                            /\ answers[k].is_accepted
                            /\ answers[k].text = extract_body_markdown(Candidates(page)[d])
                /\ question_id = Some(x) =>
                      /\ AnswersOf(x) = {}
                      /\ question_text = extract_body_markdown(Candidates(page)[d])
                /\ Len(Candidates(page)) = 2 => question_id = Some(x)

\* question 77, then the accepted empty copy of 55, then 55 with its body
C4_Witness ==
    /\ pc = "done"
    /\ Len(Candidates(page)) = 3
    /\ ScenarioB(Id55, 2, 3)
    /\ question_id = Some(Id77)
    /\ Len(answers) = 1
    /\ answers[1].message_id = Some(Id55)
    /\ answers[1].is_accepted
    /\ answers[1].text = Some(<<"Y">>)

\* none of the four identifier sources of the container holds an identifier
NoSource(div) ==
    /\ div.inner_id = None /\ div.href_id = None
    /\ (~div.has_uid \/ div.uid = <<>>)
    /\ div.id_digits = None

NoIdentifiable == \A k \in 1..Len(Candidates(page)) : NoSource(Candidates(page)[k])

\* C6 (no content): on a page without an identifiable message container no
\* message is ever stored, no question identifier is found, and the record has
\* no Answers, no question text, no question upvotes and reply count 0.
C6_NoContent ==
    NoIdentifiable =>
        /\ answers_by_id = <<>> /\ order = <<>> /\ ~Truthy(question_id)
        /\ answers = <<>> /\ question_text = None /\ question_upvotes = None
        /\ pc = "done" => reply_count = Some(0)

\* two unidentifiable containers, one of them with the question class
C6_Witness ==
    /\ pc = "done"
    /\ Len(Candidates(page)) = 2
    /\ NoIdentifiable
    /\ \E k \in 1..2 : is_question_div(Candidates(page)[k])
    /\ answers = <<>> /\ question_text = None /\ reply_count = Some(0)

\* C7 (unidentifiable containers are dropped): every Answer of a record has an
\* identifier and a permalink.
C7_AnswersIdentified ==
    pc = "done" =>
        \A k \in 1..Len(answers) :
            Truthy(answers[k].message_id) /\ answers[k].message_url # None

\* C8 (absent, not empty): the question text and the Answer texts of a record
\* are never the empty string.
C8_AbsentNotEmpty ==
    pc = "done" =>
        /\ question_text # Some(<<>>)
        /\ \A k \in 1..Len(answers) : answers[k].text # Some(<<>>)

\* the containers before position idx (those the dedup loop went through) that
\* resolve to identifier x
Processed(x) == {k \in Resolving(x) : pc # "dedup" \/ k < idx}

\* what a single container gives for a field of its Answer
FieldOf(k, f) == build_answer_from_div(Candidates(page)[k])[f]

\* a field value that counts as present: a number for the upvotes, a non-empty
\* string for the others
NonEmpty(f, v) == IF f = "upvotes" THEN v # None ELSE Truthy(v)

\* the stored Message of identifier x holds, for field f, the value of the
\* first processed container that has one, and no value if none has
FirstSeenWins(x, f) ==
    LET having == {k \in Processed(x) : NonEmpty(f, FieldOf(k, f))}
    IN IF having = {} THEN ~NonEmpty(f, answers_by_id[x][f])
       ELSE answers_by_id[x][f] = FieldOf(CHOOSE k \in having : \A j \in having : k <= j, f)

MergedFields == {"author", "created_at", "upvotes", "text"}

\* C11 (merge rule): while and after the containers are merged, every stored
\* Message holds for author, timestamp, upvotes and text the first-seen
\* non-empty value among the containers of its identifier, its accepted flag
\* is the OR of their flags at the end of the merge, and a flag one of them set
\* is still true in every later step.
C11_MergeRule ==
    pc \in {"dedup", "promote", "jsonld", "returned", "done"} =>
        \A x \in DOMAIN answers_by_id :
            /\ \A f \in MergedFields : FirstSeenWins(x, f)
            /\ (\E k \in Processed(x) : DomSignal(k)) => answers_by_id[x].is_accepted
            /\ pc \in {"dedup", "promote"} =>
                  (answers_by_id[x].is_accepted => \E k \in Processed(x) : DomSignal(k))

\* the candidate containers that resolve to an identifier, and those among
\* them whose class matches a question marker
Identified == {k \in 1..Len(Candidates(page)) : Truthy(get_msg_id(Candidates(page)[k]))}

MarkedQuestion == {k \in Identified : is_question_div(Candidates(page)[k])}

Least(S) == CHOOSE k \in S : \A j \in S : k <= j

\* the first non-empty value of field f among the containers resolving to x
MergedField(x, f) ==
    LET having == {k \in Resolving(x) : NonEmpty(f, FieldOf(k, f))}
    IN IF having = {} THEN None ELSE FieldOf(Least(having), f)

\* the message of container k is the question: its identifier is the question
\* identifier, its body and upvotes are the question fields
QuestionIs(k) ==
    LET x == Val(get_msg_id(Candidates(page)[k]))
    IN /\ question_id = Some(x)
       /\ question_text = MergedField(x, "text")
       /\ question_upvotes = MergedField(x, "upvotes")

\* C12 (role classification): in a finished record the question is the message
\* of the first container with a question marker among the identified ones; if
\* none of them has the marker it is the first identified message; if no
\* message is identified there is no question.
C12_RoleClassification ==
    pc = "done" =>
        IF MarkedQuestion # {} THEN QuestionIs(Least(MarkedQuestion))
        ELSE IF Identified # {} THEN QuestionIs(Least(Identified))
        ELSE ~Truthy(question_id) /\ question_text = None /\ question_upvotes = None

\* the positions at which an identifier other than the question identifier
\* appears for the first time among the identified containers
FirstAppearances ==
    {k \in Identified :
        /\ get_msg_id(Candidates(page)[k]) # question_id
        /\ \A j \in Identified :
              j < k => get_msg_id(Candidates(page)[j]) # get_msg_id(Candidates(page)[k])}

\* the i-th of a set of positions, counted from the smallest
Nth(S, i) == CHOOSE k \in S : Cardinality({j \in S : j < k}) = i - 1

\* C13 (answer ordering and count): the Answers of a finished record are the
\* identified messages other than the question, each once, in the order in
\* which their identifiers first appear among the candidate containers, and
\* reply_count is their number.
C13_AnswerOrder ==
    pc = "done" =>
        /\ Len(answers) = Cardinality(FirstAppearances)
        /\ \A i \in 1..Len(answers) :
              answers[i].message_id = get_msg_id(Candidates(page)[Nth(FirstAppearances, i)])
        /\ reply_count = Some(Len(answers))

\* the question 55, then the replies 77 and 33: two Answers, 77 before 33
C13_Witness ==
    /\ pc = "done"
    /\ question_id = Some(Id55)
    /\ Len(answers) = 2
    /\ answers[1].message_id = Some(Id77)
    /\ answers[2].message_id = Some(Id33)
    /\ reply_count = Some(2)

\* the value of the first identifier source of a container that holds an
\* identifier, in the order inner id, link, message-UID attribute, own id
FirstSource(div) ==
    IF div.inner_id # None THEN div.inner_id
    ELSE IF div.href_id # None THEN div.href_id
    ELSE IF div.has_uid /\ div.uid # <<>> THEN Some(div.uid)
    ELSE div.id_digits

\* C14 (identifier resolution order): when the dedup loop has gone through the
\* first container, it has stored a Message under the value of that
\* container's first identifier source that holds one, and has dropped the
\* container only if none of the four sources holds one.
C14_ResolutionOrder ==
    (pc = "dedup" /\ idx = 2) =>
        LET first == FirstSource(Candidates(page)[1])
        IN IF first = None THEN order = <<>>
           ELSE /\ order = <<Val(first)>>
                /\ answers_by_id[Val(first)].message_id = first

\* C15 (script removal does not escape): once all bodies are rendered, the
\* accepted identifiers the structured-data pass reads from the document are
\* those of the page as it was parsed.
C15_ScriptRemovalLocal ==
    pc \in {"jsonld", "returned", "done"} =>
        extract_json_ld_accepted_ids(soup) = extract_json_ld_accepted_ids(page)

=============================================================================
